---- MODULE Spec2Model ----
(***************************************************************************)
(* Model of src/src/main.rs: a bot for a turn-based grid game.  Each turn  *)
(* main() calls Game::set_from_input (reads a snapshot, rebuilds the list  *)
(* of my robot cells and the distance field grid_dist_to_outside with a    *)
(* multi-source breadth-first search), then Game::compute_actions (moves   *)
(* for every robot cell, then random spawns) and print_actions.            *)
(*                                                                         *)
(* Coordinates are <<i, j>> = <<row, column>>, 0-based as in the source.   *)
(* A Location keeps the three fields the planning code reads               *)
(* (scrap_amount, owner, units); recycler, can_build, can_spawn and        *)
(* in_range_of_recycler are stored by the source and never read again,     *)
(* and enemy_matter likewise, so they are left out of the state.           *)
(***************************************************************************)
EXTENDS Integers, Sequences, FiniteSets

VARIABLES width, height, grid, my_matter, my_robots, grid_dist_to_outside,
          input, remaining, actions, pc

vars == <<width, height, grid, my_matter, my_robots, grid_dist_to_outside,
          input, remaining, actions, pc>>

(***************************************************************************)
(* Bounds of the model.                                                    *)
(***************************************************************************)
\* largest unit count a snapshot puts on one of my cells
MaxUnits == 1
\* largest spawn budget (my_matter / 10) a snapshot allows
MaxBudget == 1

\* price of one spawned unit: the divisor of my_matter in compute_actions
SpawnCost == 10

\* <<height, width, number of snapshots on stdin>> of the runs explored
Shapes == { <<2, 3, 1>>, <<1, 3, 2>> }

(***************************************************************************)
(* Owner and Location.                                                     *)
(***************************************************************************)
\* impl From<i32> for Owner; other integers panic and are not fed in
OwnerFrom(n) ==
    CASE n = -1 -> "Neutral"
      [] n = 0  -> "Enemy"
      [] n = 1  -> "Me"

\* Location::default(): scrap_amount 0, Owner::default() = Neutral, units 0
DefaultLocation == [scrap_amount |-> 0, owner |-> "Neutral", units |-> 0]

\* the coordinates of an h x w grid
Coords(h, w) == (0 .. h - 1) \X (0 .. w - 1)

\* the order of the nested loops `for i in 0..height { for j in 0..width`
RowMajor(h, w) == [k \in 1 .. h * w |-> <<(k - 1) \div w, (k - 1) % w>>]

(***************************************************************************)
(* Inputs: the lines of one cell as <<scrap_amount, owner, units>>, the    *)
(* owner on the wire as -1, 0 or 1.  A cell without scrap is grass: the    *)
(* game gives it no owner and no units; units stand on owned cells only.   *)
(***************************************************************************)
CellLines ==
    { <<0, -1, 0>>, <<1, -1, 0>>, <<1, 0, 0>> }
        \cup { <<1, 1, u>> : u \in 0 .. MaxUnits }

\* the my_matter values fed in: none, and the price of MaxBudget units with
\* a remainder that buys nothing
MatterLines == { 0, SpawnCost * MaxBudget + 2 }

\* one turn's snapshot for an h x w grid
Snapshots(h, w) == [matter : MatterLines, cells : [Coords(h, w) -> CellLines]]

(***************************************************************************)
(* Game::new and Game::neighbors.                                          *)
(***************************************************************************)
\* the grid Game::new builds: a default Location in every cell
NewGrid(h, w) == [c \in Coords(h, w) |-> DefaultLocation]

\* vec![vec![-1; width]; height]
NewDist(h, w) == [c \in Coords(h, w) |-> -1]

\* the filter of Game::neighbors: the coordinate lies on the grid
InGrid(c, h, w) == c[1] >= 0 /\ c[1] < h /\ c[2] >= 0 /\ c[2] < w

\* Game::neighbors: east, south, west, north, those on the grid, in this order
neighbors(c, h, w) ==
    SelectSeq(<< <<c[1], c[2] + 1>>, <<c[1] + 1, c[2]>>,
                 <<c[1], c[2] - 1>>, <<c[1] - 1, c[2]>> >>,
              LAMBDA n : InGrid(n, h, w))

\* the elements of a sequence
Range(s) == { s[k] : k \in DOMAIN s }

(***************************************************************************)
(* Game::set_from_input.                                                   *)
(***************************************************************************)
\* the fields of grid[i][j] assigned from one cell's line
ReadLocation(line) ==
    [scrap_amount |-> line[1], owner |-> OwnerFrom(line[2]), units |-> line[3]]

\* the condition under which (i, j) is pushed on my_robots
IsMyRobot(loc) == loc.owner = "Me" /\ loc.units > 0

\* the condition under which (i, j) is pushed on outside_coords
IsOutside(loc) == loc.owner # "Me" /\ loc.scrap_amount > 0

\* my_robots.clear()
Clear(robots) == << >>

\* the cells pushed on my_robots by the reading loop, in loop order
RobotCoords(g, h, w) == SelectSeq(RowMajor(h, w), LAMBDA c : IsMyRobot(g[c]))

\* outside_coords after the reading loop
OutsideCoords(g, h, w) == SelectSeq(RowMajor(h, w), LAMBDA c : IsOutside(g[c]))

\* a mutant of SeedDistance: the else branch is missing, the old value stays
SeedDistanceNoReset(old, loc) == IF IsOutside(loc) THEN 0 ELSE old

\* the value the reading loop stores in grid_dist_to_outside[i][j], whose
\* value before was old: 0 for an outside cell, -1 for every other cell
SeedDistance(old, loc) == IF IsOutside(loc) THEN 0 ELSE -1

\* grid_dist_to_outside after the reading loop
SeededDist(dist, g) == [c \in DOMAIN dist |-> SeedDistance(dist[c], g[c])]

\* unvisited_neighbors of the cell c popped from to_visit
UnvisitedNeighbors(dist, c, h, w) ==
    SelectSeq(neighbors(c, h, w), LAMBDA n : dist[n] < 0)

\* a mutant of BfsStep: the cell is taken from the back of to_visit
BfsStepPopBack(dist, to_visit, h, w) ==
    LET c    == to_visit[Len(to_visit)]
        unv  == UnvisitedNeighbors(dist, c, h, w)
        cur  == dist[c]
    IN  << [x \in DOMAIN dist |-> IF x \in Range(unv) THEN cur + 1 ELSE dist[x]],
           SubSeq(to_visit, 1, Len(to_visit) - 1) \o unv >>

\* one iteration of `while to_visit.len() > 0`: pop the front cell, give each
\* unvisited neighbour current_dist + 1 and push it at the back
BfsStep(dist, to_visit, h, w) ==
    LET c    == Head(to_visit)
        unv  == UnvisitedNeighbors(dist, c, h, w)
        cur  == dist[c]
    IN  << [x \in DOMAIN dist |-> IF x \in Range(unv) THEN cur + 1 ELSE dist[x]],
           Tail(to_visit) \o unv >>

\* the while loop, run until to_visit is empty
RECURSIVE Bfs(_, _, _, _)
Bfs(dist, to_visit, h, w) ==
    IF to_visit = << >> THEN dist
    ELSE LET s == BfsStep(dist, to_visit, h, w)
         IN  Bfs(s[1], s[2], h, w)

\* the grid after the reading loop: every cell is overwritten from its line
GridOf(snap) == [c \in DOMAIN snap.cells |-> ReadLocation(snap.cells[c])]

\* grid_dist_to_outside after set_from_input on a game whose field was dist
DistAfterInput(dist, snap, h, w) ==
    LET g == GridOf(snap)
    IN  Bfs(SeededDist(dist, g), OutsideCoords(g, h, w), h, w)

\* my_robots after set_from_input on a game whose list was robots
RobotsAfterInput(robots, snap, h, w) ==
    Clear(robots) \o RobotCoords(GridOf(snap), h, w)

(***************************************************************************)
(* Game::compute_actions: the moves.                                       *)
(***************************************************************************)
\* Action::Move; x is the column, y the row
Move(amount, from, to) ==
    [kind |-> "Move", amount |-> amount,
     fromX |-> from[2], fromY |-> from[1], toX |-> to[2], toY |-> to[1]]

\* Action::Spawn with amount 1 on cell c
Spawn(c) == [kind |-> "Spawn", amount |-> 1, x |-> c[2], y |-> c[1]]

\* `neighbors` of robot cell c: its neighbours with scrap_amount > 0
PassableNeighbors(g, c, h, w) ==
    SelectSeq(neighbors(c, h, w), LAMBDA n : g[n].scrap_amount > 0)

\* Iterator::min of the neighbours' distances; None when there is none
MinDist(dist, nb) ==
    IF nb = << >> THEN "None"
    ELSE CHOOSE d \in { dist[n] : n \in Range(nb) } :
             \A n \in Range(nb) : d <= dist[n]

\* min_dist_destinations: the neighbours at min_dist, in order
MinDistDestinations(dist, nb) ==
    SelectSeq(nb, LAMBDA n : dist[n] = MinDist(dist, nb))

\* `amount` of the destination at index k (0-based) among len destinations
Amount(n_units, len, k) ==
    (n_units \div len) + (IF k < n_units % len THEN 1 ELSE 0)

\* the loop over min_dist_destinations from index k on: it pushes a Move per
\* destination and breaks at the first amount of 0
RECURSIVE EmitMoves(_, _, _, _)
EmitMoves(c, n_units, dests, k) ==
    IF k >= Len(dests) THEN << >>
    ELSE IF Amount(n_units, Len(dests), k) = 0 THEN << >>
    ELSE << Move(Amount(n_units, Len(dests), k), c, dests[k + 1]) >>
             \o EmitMoves(c, n_units, dests, k + 1)

\* .min().unwrap() panics for robot cell c: it has no passable neighbour
UnwrapPanics(g, c, h, w) == PassableNeighbors(g, c, h, w) = << >>

\* the Move actions pushed for robot cell c (which has a passable neighbour)
MovesOf(g, dist, c, h, w) ==
    EmitMoves(c, g[c].units,
              MinDistDestinations(dist, PassableNeighbors(g, c, h, w)), 0)

\* the loop over my_robots from index k on (1-based), no cell panicking
RECURSIVE MoveActions(_, _, _, _, _, _)
MoveActions(g, dist, robots, k, h, w) ==
    IF k > Len(robots) THEN << >>
    ELSE MovesOf(g, dist, robots[k], h, w)
             \o MoveActions(g, dist, robots, k + 1, h, w)

(***************************************************************************)
(* Game::compute_actions: the spawns.                                      *)
(***************************************************************************)
\* the test that pushes (i, j) on frontier
IsFrontier(g, c, h, w) ==
    /\ g[c].owner = "Me"
    /\ \E n \in Range(neighbors(c, h, w)) : IsOutside(g[n])

\* frontier, in the order of the nested loops
Frontier(g, h, w) ==
    SelectSeq(RowMajor(h, w), LAMBDA c : IsFrontier(g, c, h, w))

\* the number of iterations of `for _ in 0..self.my_matter / 10`
\* (my_matter >= 0 in every snapshot, where / and \div agree)
SpawnCount(matter) ==
    IF matter \div SpawnCost > 0 THEN matter \div SpawnCost ELSE 0

\* rng.gen_range(0..frontier.len()) panics on the empty range
GenRangePanics(g, matter, h, w) ==
    SpawnCount(matter) > 0 /\ Frontier(g, h, w) = << >>

\* the Spawn actions pushed when the draws are draws[1], draws[2], ...
\* (each a 0-based index into frontier)
SpawnActions(frontier, draws) ==
    [t \in DOMAIN draws |-> Spawn(frontier[draws[t] + 1])]

\* the sequences of draws gen_range can return over the spawn loop
Draws(count, len) == [1 .. count -> 0 .. len - 1]

(***************************************************************************)
(* main: Game::new, then set_from_input, compute_actions and print_actions *)
(* in a loop.  pc is the call main makes next, or the panic that ended it. *)
(***************************************************************************)
\* what `input` holds before the first snapshot: the lines that would give
\* the grid Game::new builds (no matter, every cell a default Location)
NoSnapshot(h, w) == [matter |-> 0, cells |-> [c \in Coords(h, w) |-> <<0, -1, 0>>]]

\* the state after Game::new() for a grid of the shape sh
InitShape(sh) ==
    /\ height = sh[1]
    /\ width = sh[2]
    /\ remaining = sh[3]
    /\ grid = NewGrid(sh[1], sh[2])
    /\ my_matter = 0
    /\ my_robots = << >>
    /\ grid_dist_to_outside = NewDist(sh[1], sh[2])
    /\ input = NoSnapshot(sh[1], sh[2])
    /\ actions = << >>
    /\ pc = "set_from_input"

Init == \E sh \in Shapes : InitShape(sh)

\* game.set_from_input() with a snapshot on stdin
SetFromInput ==
    /\ pc = "set_from_input"
    /\ remaining > 0
    /\ \E snap \in Snapshots(height, width) :
          /\ input' = snap
          /\ my_matter' = snap.matter
          /\ grid' = GridOf(snap)
          /\ my_robots' = RobotsAfterInput(my_robots, snap, height, width)
          /\ grid_dist_to_outside' =
                 DistAfterInput(grid_dist_to_outside, snap, height, width)
    /\ remaining' = remaining - 1
    /\ pc' = "compute_actions"
    /\ UNCHANGED <<width, height, actions>>

\* game.set_from_input() at the end of stdin: read_line leaves the line
\* empty and parse_input! unwraps the error of parsing ""
EndOfInput ==
    /\ pc = "set_from_input"
    /\ remaining = 0
    /\ pc' = "panic_parse_input"
    /\ UNCHANGED <<width, height, grid, my_matter, my_robots,
                   grid_dist_to_outside, input, remaining, actions>>

\* game.compute_actions(): it panics at the first robot cell without a
\* passable neighbour, else at the first draw from an empty frontier, else
\* returns the moves followed by the spawns
ComputeActions ==
    /\ pc = "compute_actions"
    /\ IF \E c \in Range(my_robots) : UnwrapPanics(grid, c, height, width)
       THEN /\ pc' = "panic_unwrap"
            /\ actions' = << >>
       ELSE IF GenRangePanics(grid, my_matter, height, width)
       THEN /\ pc' = "panic_gen_range"
            /\ actions' = << >>
       ELSE /\ pc' = "print_actions"
            /\ \E draws \in Draws(SpawnCount(my_matter),
                                  Len(Frontier(grid, height, width))) :
                  actions' =
                      MoveActions(grid, grid_dist_to_outside, my_robots, 1,
                                  height, width)
                      \o SpawnActions(Frontier(grid, height, width), draws)
    /\ UNCHANGED <<width, height, grid, my_matter, my_robots,
                   grid_dist_to_outside, input, remaining>>

\* print_actions(actions): the vector is moved into the call and dropped
PrintActions ==
    /\ pc = "print_actions"
    /\ actions' = << >>
    /\ pc' = "set_from_input"
    /\ UNCHANGED <<width, height, grid, my_matter, my_robots,
                   grid_dist_to_outside, input, remaining>>

Next == SetFromInput \/ EndOfInput \/ ComputeActions \/ PrintActions

Spec == Init /\ [][Next]_vars

(***************************************************************************)
(* Notions the properties are stated in, defined from the grid alone and   *)
(* not through the operators above.                                        *)
(***************************************************************************)
Cells == Coords(height, width)

Abs(x) == IF x < 0 THEN -x ELSE x

\* two cells are 4-adjacent
Adjacent(a, b) == Abs(a[1] - b[1]) + Abs(a[2] - b[2]) = 1

\* the seed (outside, contestable) cells: not mine, with scrap
Seeds == { c \in Cells : grid[c].owner # "Me" /\ grid[c].scrap_amount > 0 }

Passable(c) == grid[c].scrap_amount > 0

\* the cells from which a seed is reached by a path of at most k hops over
\* 4-adjacent cells that all have scrap
RECURSIVE Within(_)
Within(k) ==
    IF k = 0 THEN Seeds
    ELSE LET near == Within(k - 1)
         IN  near \cup { c \in Cells :
                           Passable(c) /\ \E n \in near : Adjacent(c, n) }

\* the cells from which some seed is reached by such a path
Connected == Within(Cardinality(Cells))

\* the length of the shortest such path from c, a cell of Connected
PathLength(c) ==
    CHOOSE k \in 0 .. Cardinality(Cells) :
        c \in Within(k) /\ \A m \in 0 .. k - 1 : c \notin Within(m)

\* my robot cells
RobotCells == { c \in Cells : grid[c].owner = "Me" /\ grid[c].units > 0 }

\* the neighbours of c in the order east, south, west, north that have scrap
EastSouthWestNorth(c) ==
    SelectSeq(<< <<c[1], c[2] + 1>>, <<c[1] + 1, c[2]>>,
                 <<c[1], c[2] - 1>>, <<c[1] - 1, c[2]>> >>,
              LAMBDA n : n \in Cells /\ Passable(n))

\* a distance as the properties order it: the sentinel is above every distance
Rank(d) == IF d < 0 THEN Cardinality(Cells) + 1 ELSE d

\* the destinations of robot cell c: its passable neighbours whose distance
\* is the minimum over all its passable neighbours, in that order
Destinations(c) ==
    LET nb == EastSouthWestNorth(c)
    IN  SelectSeq(nb, LAMBDA n :
            \A m \in Range(nb) :
                Rank(grid_dist_to_outside[n]) <= Rank(grid_dist_to_outside[m]))

\* c has a passable neighbour of finite distance
HasFiniteNeighbor(c) ==
    \E n \in Range(EastSouthWestNorth(c)) : grid_dist_to_outside[n] >= 0

\* the units the destination at index i (0-based) of k receives out of n
Share(n, k, i) == (n \div k) + (IF i < n % k THEN 1 ELSE 0)

\* the moves of robot cell c: one per destination with a share above 0
ExpectedMoves(c) ==
    LET d == Destinations(c)
        n == grid[c].units
        all == [i \in 1 .. Len(d) |-> Move(Share(n, Len(d), i - 1), c, d[i])]
    IN  SelectSeq(all, LAMBDA a : a.amount > 0)

\* the Move actions emitted with cell c as source, in order
MovesFrom(c) ==
    SelectSeq(actions, LAMBDA a :
        a.kind = "Move" /\ a.fromX = c[2] /\ a.fromY = c[1])

\* the Spawn actions emitted, in order
SpawnsEmitted == SelectSeq(actions, LAMBDA a : a.kind = "Spawn")

RECURSIVE SumAmounts(_)
SumAmounts(as) ==
    IF as = << >> THEN 0 ELSE Head(as).amount + SumAmounts(Tail(as))

\* the frontier: my cells with a neighbour that is a seed
FrontierCells == { c \in Cells : grid[c].owner = "Me"
                                  /\ \E n \in Seeds : Adjacent(c, n) }

\* compute_actions has run on the current snapshot: it returned or panicked
Computed == pc \in {"print_actions", "panic_unwrap", "panic_gen_range"}

\* compute_actions returned its action list
Returned == pc = "print_actions"

(***************************************************************************)
(* Properties.                                                             *)
(***************************************************************************)

\* C1: after set_from_input every seed cell has distance 0, and every cell
\* from which a seed is reached by a path of cells with scrap has the length
\* of the shortest such path as its distance.
C1_ShortestPassablePath ==
    \A c \in Cells :
        /\ c \in Seeds => grid_dist_to_outside[c] = 0
        /\ c \in Connected => grid_dist_to_outside[c] = PathLength(c)

\* C2: once compute_actions has run, the moves emitted for every robot cell
\* with a passable neighbour of finite distance are those to its
\* minimum-distance passable neighbours in the order east, south, west,
\* north, destination i of k receiving n \div k, plus 1 when i < n % k, and
\* no move where that is 0.
C2_MovesToNearestInOrder ==
    Computed =>
        \A c \in RobotCells :
            HasFiniteNeighbor(c) => MovesFrom(c) = ExpectedMoves(c)

\* C3: once compute_actions has run, the amounts of the moves emitted for a
\* robot cell with a nonempty destination set sum to its units.
C3_UnitsConserved ==
    Computed =>
        \A c \in RobotCells :
            HasFiniteNeighbor(c) =>
                SumAmounts(MovesFrom(c)) = grid[c].units

\* C4: once compute_actions has run with a nonempty frontier and
\* my_matter >= 0, it has emitted exactly my_matter \div 10 spawns, each of
\* amount 1 and on a frontier cell.
C4_SpawnBudget ==
    (Computed /\ FrontierCells # {} /\ my_matter >= 0) =>
        /\ Len(SpawnsEmitted) = my_matter \div 10
        /\ \A t \in DOMAIN SpawnsEmitted :
              /\ SpawnsEmitted[t].amount = 1
              /\ <<SpawnsEmitted[t].y, SpawnsEmitted[t].x>> \in FrontierCells

\* C5: when some robot cell has no passable neighbour, compute_actions
\* returns an action list and has emitted no move for that cell.
C5_NoAbortWithoutPassableNeighbor ==
    \A c \in RobotCells :
        (Computed /\ EastSouthWestNorth(c) = << >>) =>
            Returned /\ MovesFrom(c) = << >>

\* C6: when the frontier is empty and the spawn budget is positive,
\* compute_actions returns an action list and has emitted no spawn.
C6_NoAbortWithoutFrontier ==
    (Computed /\ FrontierCells = {} /\ my_matter \div 10 > 0) =>
        Returned /\ SpawnsEmitted = << >>

\* C7: when the grid has no seed cell, every distance is the sentinel and
\* compute_actions emits no move at all.
C7_NoMovesWithoutSeeds ==
    Seeds = {} =>
        /\ \A c \in Cells : grid_dist_to_outside[c] = -1
        /\ Computed => \A c \in Cells : MovesFrom(c) = << >>

\* C8: after set_from_input the distance field and the robot list are what a
\* newly created game of the same dimensions computes from the latest
\* snapshot alone.
C8_DependsOnLatestSnapshot ==
    pc = "compute_actions" =>
        /\ grid_dist_to_outside =
               DistAfterInput(NewDist(height, width), input, height, width)
        /\ my_robots = RobotsAfterInput(<< >>, input, height, width)

\* C9: after set_from_input, two 4-adjacent cells that both have a distance
\* differ by at most 1.
C9_AdjacentWithinOne ==
    pc = "compute_actions" =>
        \A a \in Cells : \A b \in Cells :
            (/\ Adjacent(a, b)
             /\ grid_dist_to_outside[a] >= 0
             /\ grid_dist_to_outside[b] >= 0) =>
                Abs(grid_dist_to_outside[a] - grid_dist_to_outside[b]) <= 1

\* C10: a cell from which no seed is reached by a path of cells with scrap
\* keeps the sentinel after set_from_input (whether or not the cell itself
\* is held to the scrap condition of the path).
C10_EnclosedKeepsSentinel ==
    \A c \in Cells :
        (/\ c \notin Connected
         /\ \A n \in Connected : ~Adjacent(c, n)) =>
            grid_dist_to_outside[c] = -1

(***************************************************************************)
(* What does hold of the moves and spawns: the same statements for the     *)
(* turns in which compute_actions returns.                                 *)
(***************************************************************************)
MovesWhenReturned ==
    Returned =>
        \A c \in RobotCells :
            EastSouthWestNorth(c) # << >> =>
                /\ HasFiniteNeighbor(c) => MovesFrom(c) = ExpectedMoves(c)
                /\ SumAmounts(MovesFrom(c)) = grid[c].units

SpawnsWhenReturned ==
    Returned =>
        /\ Len(SpawnsEmitted) = my_matter \div 10
        /\ \A t \in DOMAIN SpawnsEmitted :
              /\ SpawnsEmitted[t].amount = 1
              /\ <<SpawnsEmitted[t].y, SpawnsEmitted[t].x>> \in FrontierCells

\* the field is the shortest path length over all cells, with or without
\* scrap, and it is defined everywhere as soon as one seed exists
FloodsEveryCell ==
    Seeds # {} => \A c \in Cells : grid_dist_to_outside[c] >= 0

(***************************************************************************)
(* Reachable states in which the confirmed properties have their case.     *)
(***************************************************************************)
\* a second snapshot has been read, and it has robots and seeds
C8_Witness ==
    /\ height = 1 /\ remaining = 0 /\ pc = "compute_actions"
    /\ my_robots # << >>
    /\ \E c \in Cells : grid_dist_to_outside[c] = 2

\* a field with adjacent cells at distances 2 and 3
C9_Witness ==
    /\ pc = "compute_actions"
    /\ \E a \in Cells : \E b \in Cells :
          /\ Adjacent(a, b)
          /\ grid_dist_to_outside[a] = 2
          /\ grid_dist_to_outside[b] = 3

====
